---- MODULE Spec2Model ----
(***************************************************************************)
(* Model of exercise.py: the contact book (Field / Phone / Birthday,       *)
(* Record, AddressBook), the command handlers wrapped by input_error,      *)
(* process_command, main and the pickle snapshot.                          *)
(*                                                                         *)
(* A Python str is a sequence of characters; a character is a one-element  *)
(* TLA+ string, and "SUP2" stands for the single character U+00B2          *)
(* (SUPERSCRIPT TWO).  The only whitespace character of the alphabet is    *)
(* the space.                                                              *)
(***************************************************************************)
EXTENDS Integers, Sequences, FiniteSets, TLC

VARIABLES
    book,   \* AddressBook.data: insertion-ordered sequence of Records
    disk,   \* content of addressbook.pkl, or NoFile
    pc,     \* "stopped" | "running": whether main's loop is executing
    io,     \* accesses to addressbook.pkl made by the current process
    last    \* the most recent call or step and what it returned

vars == <<book, disk, pc, io, last>>

\* last after a call of a method of Record or AddressBook or of a handler:
\* the exception it raised if any, the handler's message, and whether the
\* name was in the book before the call
Called(op, args, raised, msg, existed) ==
    [op |-> op, args |-> args, raised |-> raised, msg |-> msg,
     existed |-> existed]

\* last after a call of a date function: what it raised or returned
Asked(op, args, res) ==
    [op |-> op, args |-> args, raised |-> res.raised, val |-> res.val]

----------------------------------------------------------------------------
(* Bounds of the model *)

MaxPhones == 2      \* phones per record the explored runs grow to

----------------------------------------------------------------------------
(* Characters and strings *)

AsciiDigits == <<"0", "1", "2", "3", "4", "5", "6", "7", "8", "9">>

IsAsciiDigit(c) == \E i \in 1..10 : AsciiDigits[i] = c

\* value of an ASCII digit character
DigitVal(c) == (CHOOSE i \in 1..10 : AsciiDigits[i] = c) - 1

DigitChar(n) == AsciiDigits[n + 1]

\* str.isdigit() on one character: the decimal digits and the characters
\* of Unicode Numeric_Type=Digit, of which the alphabet has U+00B2
CharIsDigit(c) == IsAsciiDigit(c) \/ c = "SUP2"

\* str.isdigit(): false on the empty string
IsDigit(s) == Len(s) > 0 /\ \A i \in 1..Len(s) : CharIsDigit(s[i])

LowerChar(c) == IF c = "A" THEN "a" ELSE IF c = "B" THEN "b" ELSE c

\* str.lower()
Lower(s) == [i \in 1..Len(s) |-> LowerChar(s[i])]

HasSpace(s) == \E i \in 1..Len(s) : s[i] = " "

\* position of the first character of s at or after i that is (sp = TRUE)
\* or is not (sp = FALSE) a space; Len(s) + 1 when there is none
Scan(s, i, sp) ==
    IF \E k \in i..Len(s) : (s[k] = " ") = sp
    THEN CHOOSE k \in i..Len(s) :
             /\ (s[k] = " ") = sp
             /\ \A j \in i..(k - 1) : (s[j] = " ") # sp
    ELSE Len(s) + 1

\* s without its leading whitespace
LStrip(s) == SubSeq(s, Scan(s, 1, FALSE), Len(s))

\* the longest prefix of s without whitespace
TakeToken(s) == SubSeq(s, 1, Scan(s, 1, TRUE) - 1)

RECURSIVE Split(_)
\* str.split(): tokens separated by runs of whitespace
Split(s) ==
    LET t == LStrip(s) IN
    IF t = <<>> THEN <<>>
    ELSE LET tok == TakeToken(t) IN
         <<tok>> \o Split(SubSeq(t, Len(tok) + 1, Len(t)))

\* str.split(maxsplit=1)
SplitMax1(s) ==
    LET t == LStrip(s) IN
    IF t = <<>> THEN <<>>
    ELSE LET tok == TakeToken(t)
             rest == LStrip(SubSeq(t, Len(tok) + 1, Len(t)))
         IN IF rest = <<>> THEN <<tok>> ELSE <<tok, rest>>

RECURSIVE SplitOn(_, _)
\* the fields of s between occurrences of the character c
SplitOn(s, c) ==
    IF \A i \in 1..Len(s) : s[i] # c THEN <<s>>
    ELSE LET k == CHOOSE i \in 1..Len(s) :
                      s[i] = c /\ \A j \in 1..(i - 1) : s[j] # c
         IN <<SubSeq(s, 1, k - 1)>> \o SplitOn(SubSeq(s, k + 1, Len(s)), c)

RECURSIVE Join(_, _)
\* sep.join(parts)
Join(parts, sep) ==
    IF parts = <<>> THEN <<>>
    ELSE IF Len(parts) = 1 THEN parts[1]
    ELSE parts[1] \o sep \o Join(Tail(parts), sep)

RECURSIVE Rep(_, _)
Rep(c, n) == IF n = 0 THEN <<>> ELSE <<c>> \o Rep(c, n - 1)

----------------------------------------------------------------------------
(* Results of calls: either a returned value or a raised exception *)

\* an optional value is a sequence of length 0 (None) or 1
None == <<>>

Some(v) == <<v>>

Ret(v) == [raised |-> "", msg |-> "", val |-> v]

Raise(exc, m) == [raised |-> exc, msg |-> m, val |-> None]

----------------------------------------------------------------------------
(* Field value types *)

PhoneLen == 10

\* Phone.is_valid_phone
is_valid_phone(phone) == IsDigit(phone) /\ Len(phone) = PhoneLen

\* Phone.__init__: the stored value, or ValueError
Phone(value) ==
    IF ~is_valid_phone(value)
    THEN Raise("ValueError",
               "Invalid phone number format. Phone should consist of 10 digits.")
    ELSE Ret(value)

----------------------------------------------------------------------------
(* Calendar: datetime values at midnight are [y, m, d] *)

IsLeap(y) == (y % 4 = 0) /\ ((y % 100 # 0) \/ (y % 400 = 0))

DaysInMonth(y, m) ==
    IF m = 2 THEN (IF IsLeap(y) THEN 29 ELSE 28)
    ELSE IF m \in {4, 6, 9, 11} THEN 30 ELSE 31

RECURSIVE DaysBeforeMonth(_, _)
DaysBeforeMonth(y, m) ==
    IF m = 1 THEN 0 ELSE DaysBeforeMonth(y, m - 1) + DaysInMonth(y, m - 1)

DaysBeforeYear(y) ==
    (y - 1) * 365 + ((y - 1) \div 4) - ((y - 1) \div 100) + ((y - 1) \div 400)

\* date.toordinal(): 1 for 01.01.0001
Ordinal(dt) == DaysBeforeYear(dt.y) + DaysBeforeMonth(dt.y, dt.m) + dt.d

\* date.weekday(): Monday is 0, Saturday 5, Sunday 6
Weekday(dt) == (Ordinal(dt) + 6) % 7

\* whether datetime(y, m, d) can be constructed
ValidDate(y, m, d) ==
    /\ y >= 1 /\ y <= 9999
    /\ m >= 1 /\ m <= 12
    /\ d >= 1 /\ d <= DaysInMonth(y, m)

NextDay(dt) ==
    IF dt.d < DaysInMonth(dt.y, dt.m) THEN [dt EXCEPT !.d = dt.d + 1]
    ELSE IF dt.m < 12 THEN [y |-> dt.y, m |-> dt.m + 1, d |-> 1]
    ELSE [y |-> dt.y + 1, m |-> 1, d |-> 1]

RECURSIVE AddDays(_, _)
\* dt + timedelta(days=n)
AddDays(dt, n) == IF n = 0 THEN dt ELSE AddDays(NextDay(dt), n - 1)

\* the %d directive of strptime: 3[0-1] | [1-2]\d | 0[1-9] | [1-9] | " "[1-9]
MatchDay(f) ==
    \/ Len(f) = 2 /\ f[1] = "3" /\ f[2] \in {"0", "1"}
    \/ Len(f) = 2 /\ f[1] \in {"1", "2"} /\ IsAsciiDigit(f[2])
    \/ Len(f) = 2 /\ f[1] = "0" /\ IsAsciiDigit(f[2]) /\ f[2] # "0"
    \/ Len(f) = 1 /\ IsAsciiDigit(f[1]) /\ f[1] # "0"
    \/ Len(f) = 2 /\ f[1] = " " /\ IsAsciiDigit(f[2]) /\ f[2] # "0"

\* the %m directive of strptime: 1[0-2] | 0[1-9] | [1-9]
MatchMonth(f) ==
    \/ Len(f) = 2 /\ f[1] = "1" /\ f[2] \in {"0", "1", "2"}
    \/ Len(f) = 2 /\ f[1] = "0" /\ IsAsciiDigit(f[2]) /\ f[2] # "0"
    \/ Len(f) = 1 /\ IsAsciiDigit(f[1]) /\ f[1] # "0"

\* the %Y directive of strptime: \d\d\d\d
MatchYear(f) == Len(f) = 4 /\ \A i \in 1..4 : IsAsciiDigit(f[i])

RECURSIVE ToInt(_)
\* int() of a field of digits, a leading space ignored
ToInt(f) ==
    IF f = <<>> THEN 0
    ELSE IF f[Len(f)] = " " THEN 0
    ELSE 10 * ToInt(SubSeq(f, 1, Len(f) - 1)) + DigitVal(f[Len(f)])

\* datetime.strptime(value, "%d.%m.%Y")
strptime(value) ==
    LET f == SplitOn(value, ".") IN
    IF Len(f) # 3 \/ ~MatchDay(f[1]) \/ ~MatchMonth(f[2]) \/ ~MatchYear(f[3])
    THEN Raise("ValueError", "does not match format")
    ELSE LET d == ToInt(f[1])
             m == ToInt(f[2])
             y == ToInt(f[3])
         IN IF ValidDate(y, m, d) THEN Ret([y |-> y, m |-> m, d |-> d])
            ELSE Raise("ValueError", "out of range")

Pad2(n) == <<DigitChar(n \div 10), DigitChar(n % 10)>>

Pad4(n) == <<DigitChar(n \div 1000), DigitChar((n \div 100) % 10),
             DigitChar((n \div 10) % 10), DigitChar(n % 10)>>

\* dt.strftime("%d.%m.%Y")
strftime(dt) == Pad2(dt.d) \o <<".">> \o Pad2(dt.m) \o <<".">> \o Pad4(dt.y)

\* Birthday.__init__: the stored value is the string as given
Birthday(value) ==
    IF strptime(value).raised = ""
    THEN Ret(value)
    ELSE Raise("ValueError", "Invalid date format. Use DD.MM.YYYY")

----------------------------------------------------------------------------
(* Record: [name, phones, birthday]; birthday is an optional string *)

\* Record.__init__
Record(name) == [name |-> name, phones |-> <<>>, birthday |-> None]

\* index of the first phone whose value equals phone, 0 when there is none
FirstIndex(phones, phone) ==
    IF \E i \in 1..Len(phones) : phones[i] = phone
    THEN CHOOSE i \in 1..Len(phones) :
             phones[i] = phone /\ \A j \in 1..(i - 1) : phones[j] # phone
    ELSE 0

\* Record.add_phone: the record afterwards, or ValueError
add_phone(rec, phone) ==
    LET p == Phone(phone) IN
    IF p.raised # "" THEN [rec |-> rec, res |-> p]
    ELSE [rec |-> [rec EXCEPT !.phones = Append(@, p.val)], res |-> Ret(None)]

\* Record.remove_phone: returns self when a phone was removed, else None
remove_phone(rec, phone) ==
    LET i == FirstIndex(rec.phones, phone) IN
    IF i = 0 THEN [rec |-> rec, res |-> Ret(None)]
    ELSE [rec |-> [rec EXCEPT !.phones = SubSeq(@, 1, i - 1)
                                         \o SubSeq(@, i + 1, Len(@))],
          res |-> Ret(Some("self"))]

\* edit_phone done as remove_phone followed by add_phone
edit_phone_Append(rec, old_phone, new_phone) ==
    LET i == FirstIndex(rec.phones, old_phone) IN
    IF i = 0
    THEN [rec |-> rec, res |-> Raise("ValueError", "Phone number not found")]
    ELSE LET p == Phone(new_phone) IN
         IF p.raised # "" THEN [rec |-> rec, res |-> p]
         ELSE [rec |-> [rec EXCEPT !.phones =
                            Append(SubSeq(@, 1, i - 1)
                                       \o SubSeq(@, i + 1, Len(@)), p.val)],
               res |-> Ret(Some("self"))]

\* Record.edit_phone
edit_phone(rec, old_phone, new_phone) ==
    LET i == FirstIndex(rec.phones, old_phone) IN
    IF i = 0
    THEN [rec |-> rec, res |-> Raise("ValueError", "Phone number not found")]
    ELSE LET p == Phone(new_phone) IN
         IF p.raised # "" THEN [rec |-> rec, res |-> p]
         ELSE [rec |-> [rec EXCEPT !.phones[i] = p.val],
               res |-> Ret(Some("self"))]

\* Record.add_birthday
add_birthday(rec, birthday) ==
    LET b == Birthday(birthday) IN
    IF b.raised # "" THEN [rec |-> rec, res |-> b]
    ELSE [rec |-> [rec EXCEPT !.birthday = Some(b.val)], res |-> Ret(None)]

\* Record.__str__; the three labels stand for the literal Ukrainian labels
RecordStr(rec) ==
    <<"[name]: ">> \o rec.name
        \o <<", [phones]: ">> \o Join(rec.phones, <<",", " ">>)
        \o <<", [birthday]: ">>
        \o (IF rec.birthday # None THEN rec.birthday[1] ELSE <<"N", "/", "A">>)

----------------------------------------------------------------------------
(* AddressBook: data in insertion order, one Record per key *)

\* position of the key name in data, 0 when absent
KeyIndex(data, name) ==
    IF \E i \in 1..Len(data) : data[i].name = name
    THEN CHOOSE i \in 1..Len(data) : data[i].name = name
    ELSE 0

\* AddressBook.add_record: self.data[record.name.value] = record
add_record(data, record) ==
    LET i == KeyIndex(data, record.name) IN
    IF i = 0 THEN Append(data, record) ELSE [data EXCEPT ![i] = record]

\* AddressBook.find: an optional Record
find(data, name) ==
    LET i == KeyIndex(data, name) IN
    IF i = 0 THEN None ELSE Some(data[i])

\* the book after the Record stored under name has become rec
Store(data, name, rec) == [data EXCEPT ![KeyIndex(data, name)] = rec]

----------------------------------------------------------------------------
(* Birthday arithmetic.  A reading of datetime.today() is [y, m, d, tod]:  *)
(* tod = 0 is midnight exactly, tod = 1 any later time of that day.        *)

\* next_birthday < today, next_birthday being a midnight
Before(dt, today) ==
    \/ Ordinal(dt) < Ordinal(today)
    \/ Ordinal(dt) = Ordinal(today) /\ today.tod > 0

\* birthday_date.replace(year=y): ValueError for 29.02 in a common year
replace(dt, y) ==
    IF ValidDate(y, dt.m, dt.d) THEN Ret([y |-> y, m |-> dt.m, d |-> dt.d])
    ELSE Raise("ValueError", "day is out of range for month")

\* the occurrence chosen by lines 67-70 and 94-97
next_birthday(value, today) ==
    LET birthday_date == strptime(value).val
        this == replace(birthday_date, today.y)
    IN IF this.raised # "" THEN this
       ELSE IF Before(this.val, today) THEN replace(birthday_date, today.y + 1)
       ELSE this

\* (next_birthday - today).days: timedelta.days is the floor of the difference
DeltaDays(dt, today) ==
    Ordinal(dt) - Ordinal(today) - (IF today.tod > 0 THEN 1 ELSE 0)

\* Record.get_days_to_birthday, datetime.today() reading today
get_days_to_birthday(rec, today) ==
    IF rec.birthday = None THEN Ret(None)
    ELSE LET nb == next_birthday(rec.birthday[1], today) IN
         IF nb.raised # "" THEN nb
         ELSE Ret(Some(DeltaDays(nb.val, today)))

\* WeekendShift with the Sunday branch moving two days as well
WeekendShift_SundayTwo(dt) ==
    IF Weekday(dt) \in {5, 6} THEN AddDays(dt, 2) ELSE dt

\* lines 98-101: Saturday moves two days on, Sunday one
WeekendShift(dt) ==
    IF Weekday(dt) = 5 THEN AddDays(dt, 2)
    ELSE IF Weekday(dt) = 6 THEN AddDays(dt, 1)
    ELSE dt

\* lines 93-105 for one record with a birthday: d2b is what its
\* get_days_to_birthday returned, nb its occurrence computed at lines 94-97,
\* rest the outcome of the loop over the records after it
UpcomingItem(record, days, d2b, nb, rest) ==
    IF d2b.raised # "" THEN d2b
    ELSE IF ~(d2b.val # None /\ d2b.val[1] <= days) THEN rest
    ELSE IF nb.raised # "" THEN nb
    ELSE IF rest.raised # "" THEN rest
    ELSE Ret(<<[name |-> record.name,
                birthday |-> strftime(WeekendShift(nb.val))]>> \o rest.val)

RECURSIVE UpcomingFrom(_, _, _, _, _)
\* the loop of get_upcoming_birthdays from record number i on; reads[i + 1]
\* is what datetime.today() returns inside record i's get_days_to_birthday
UpcomingFrom(data, i, days, today, reads) ==
    IF i > Len(data) THEN Ret(<<>>)
    ELSE IF data[i].birthday = None
    THEN UpcomingFrom(data, i + 1, days, today, reads)
    ELSE UpcomingItem(data[i], days,
                      get_days_to_birthday(data[i], reads[i + 1]),
                      next_birthday(data[i].birthday[1], today),
                      UpcomingFrom(data, i + 1, days, today, reads))

DefaultDays == 7

\* AddressBook.get_upcoming_birthdays
get_upcoming_birthdays(data, days, today, reads) ==
    UpcomingFrom(data, 1, days, today, reads)

\* the order of two readings of the clock
NotLater(t1, t2) ==
    \/ Ordinal(t1) < Ordinal(t2)
    \/ Ordinal(t1) = Ordinal(t2) /\ t1.tod <= t2.tod

RECURSIVE Grow(_, _, _)
Grow(clock, S, n) ==
    IF n = 0 THEN S
    ELSE Grow(clock,
              UNION {{Append(r, t) :
                        t \in {u \in clock :
                                 /\ NotLater(r[Len(r)], u)
                                 /\ Ordinal(u) - Ordinal(r[1]) <= 1}} :
                     r \in S},
              n - 1)

\* the readings one call of get_upcoming_birthdays can make: r[1] at line
\* 88, then r[i + 1] inside record i's get_days_to_birthday, each no
\* earlier than the one before; the call lasts at most a day
ClockReads(clock, n) == Grow(clock, {<<t>> : t \in clock}, n)

----------------------------------------------------------------------------
(* Command handlers.  A handler returns [book, ret]: the book it leaves    *)
(* and the string it returns; ret.err tells that the string is str(e) of   *)
(* an exception caught by input_error, ret.text is the part of the string  *)
(* that is computed from data.                                             *)

Said(m) == [err |-> FALSE, msg |-> m, text |-> <<>>]

Text(m, t) == [err |-> FALSE, msg |-> m, text |-> t]

\* input_error's except branch: return str(e)
Caught(res) == [err |-> TRUE, msg |-> res.msg, text |-> <<>>]

\* add_contact storing a new Record whether or not the name is known
add_contact_Replace(args, data) ==
    IF Len(args) < 2
    THEN [book |-> data,
          ret |-> Caught(Raise("ValueError",
                      "not enough values to unpack (expected at least 2)"))]
    ELSE LET name == args[1]
             phone == args[2]
             found == find(data, name)
             data1 == add_record(data, Record(name))
             message == IF found = None THEN "Contact added."
                        ELSE "Contact updated."
             a == add_phone(Record(name), phone)
         IN  IF a.res.raised # ""
             THEN [book |-> data1, ret |-> Caught(a.res)]
             ELSE [book |-> Store(data1, name, a.rec), ret |-> Said(message)]

\* add_contact
add_contact(args, data) ==
    IF Len(args) < 2
    THEN [book |-> data,
          ret |-> Caught(Raise("ValueError",
                      "not enough values to unpack (expected at least 2)"))]
    ELSE LET name == args[1]
             phone == args[2]
             found == find(data, name)
             data1 == IF found = None THEN add_record(data, Record(name))
                      ELSE data
             message == IF found = None THEN "Contact added."
                        ELSE "Contact updated."
             record == find(data1, name)[1]
         IN  IF phone # <<>>
             THEN LET a == add_phone(record, phone) IN
                  IF a.res.raised # ""
                  THEN [book |-> data1, ret |-> Caught(a.res)]
                  ELSE [book |-> Store(data1, name, a.rec),
                        ret |-> Said(message)]
             ELSE [book |-> data1, ret |-> Said(message)]

\* change_contact
change_contact(args, data) ==
    IF Len(args) < 3
    THEN [book |-> data,
          ret |-> Caught(Raise("ValueError",
                      "not enough values to unpack (expected 3)"))]
    ELSE IF Len(args) > 3
    THEN [book |-> data,
          ret |-> Caught(Raise("ValueError",
                      "too many values to unpack (expected 3)"))]
    ELSE LET name == args[1]
             found == find(data, name)
         IN  IF found # None
             THEN LET e == edit_phone(found[1], args[2], args[3]) IN
                  IF e.res.raised # ""
                  THEN [book |-> data, ret |-> Caught(e.res)]
                  ELSE [book |-> Store(data, name, e.rec),
                        ret |-> Said("Phone number updated for {name}.")]
             ELSE [book |-> data, ret |-> Said("Contact not found.")]

\* show_phone
show_phone(args, data) ==
    IF Len(args) < 1
    THEN [book |-> data,
          ret |-> Caught(Raise("IndexError", "list index out of range"))]
    ELSE LET found == find(data, args[1]) IN
         IF found # None
         THEN [book |-> data,
               ret |-> Text("phones", Join(found[1].phones, <<",", " ">>))]
         ELSE [book |-> data, ret |-> Said("Contact not found.")]

\* add_birthday (the handler)
add_birthday_cmd(args, data) ==
    IF Len(args) < 2
    THEN [book |-> data,
          ret |-> Caught(Raise("ValueError",
                      "not enough values to unpack (expected 2)"))]
    ELSE IF Len(args) > 2
    THEN [book |-> data,
          ret |-> Caught(Raise("ValueError",
                      "too many values to unpack (expected 2)"))]
    ELSE LET name == args[1]
             found == find(data, name)
         IN  IF found # None
             THEN LET b == add_birthday(found[1], args[2]) IN
                  IF b.res.raised # ""
                  THEN [book |-> data, ret |-> Caught(b.res)]
                  ELSE [book |-> Store(data, name, b.rec),
                        ret |-> Said("Birthday added for {name}.")]
             ELSE [book |-> data, ret |-> Said("Contact not found.")]

\* show_birthday
show_birthday(args, data) ==
    IF Len(args) < 1
    THEN [book |-> data,
          ret |-> Caught(Raise("IndexError", "list index out of range"))]
    ELSE LET found == find(data, args[1]) IN
         IF found # None /\ found[1].birthday # None
         THEN [book |-> data, ret |-> Text("birthday", found[1].birthday[1])]
         ELSE [book |-> data, ret |-> Said("Contact or birthday not found.")]

\* one line of the birthdays listing: f"{item['name']}: {item['birthday']}"
ItemLine(item) == item.name \o <<":", " ">> \o item.birthday

\* lines 209-211: the string made of the upcoming birthdays up
BirthdaysText(data, up) ==
    IF up.raised # "" THEN [book |-> data, ret |-> Caught(up)]
    ELSE IF up.val = <<>>
    THEN [book |-> data, ret |-> Said("No birthdays in the next 7 days.")]
    ELSE [book |-> data,
          ret |-> Text("birthdays",
                       Join([i \in 1..Len(up.val) |-> ItemLine(up.val[i])],
                            <<"\n">>))]

\* birthdays; reads are the readings of the clock during the call
birthdays(args, data, reads) ==
    BirthdaysText(data,
                  get_upcoming_birthdays(data, DefaultDays, reads[1], reads))

----------------------------------------------------------------------------
(* Persistence: pickle.dump writes the book as a sequence of strings, a    *)
(* count, then per Record its name, the number of phones, the phones, and  *)
(* "B" followed by the birthday or "N"; pickle.load reads it back.         *)

NoFile == None

\* DumpRecord without the birthday
DumpRecord_NoBirthday(rec) ==
    <<rec.name, <<DigitChar(Len(rec.phones))>>>> \o rec.phones \o <<<<"N">>>>

DumpRecord(rec) ==
    <<rec.name, <<DigitChar(Len(rec.phones))>>>> \o rec.phones
        \o (IF rec.birthday = None THEN <<<<"N">>>>
            ELSE <<<<"B">>, rec.birthday[1]>>)

RECURSIVE DumpRecords(_)
DumpRecords(data) ==
    IF data = <<>> THEN <<>>
    ELSE DumpRecord(Head(data)) \o DumpRecords(Tail(data))

\* pickle.dump(book, f)
Dump(data) == <<<<DigitChar(Len(data))>>>> \o DumpRecords(data)

RECURSIVE LoadRecords(_, _)
LoadRecords(bytes, n) ==
    IF n = 0 THEN <<>>
    ELSE LET k == DigitVal(bytes[2][1])
             hasB == bytes[3 + k] = <<"B">>
             rec == [name |-> bytes[1],
                     phones |-> SubSeq(bytes, 3, 2 + k),
                     birthday |-> IF hasB THEN Some(bytes[4 + k]) ELSE None]
             used == IF hasB THEN 4 + k ELSE 3 + k
         IN <<rec>> \o LoadRecords(SubSeq(bytes, used + 1, Len(bytes)), n - 1)

\* pickle.load(f)
Load(bytes) == LoadRecords(Tail(bytes), DigitVal(bytes[1][1]))

\* save_data: the file afterwards
save_data(data) == Some(Dump(data))

\* load_data: the book read from the file, an empty AddressBook without one
load_data(file) == IF file = NoFile THEN <<>> ELSE Load(file[1])

----------------------------------------------------------------------------
(* process_command and main *)

W_hello == <<"h", "e", "l", "l", "o">>
W_add == <<"a", "d", "d">>
W_change == <<"c", "h", "a", "n", "g", "e">>
W_phone == <<"p", "h", "o", "n", "e">>
W_all == <<"a", "l", "l">>
W_add_birthday == W_add \o <<"-", "b", "i", "r", "t", "h", "d", "a", "y">>
W_show_birthday == <<"s", "h", "o", "w">>
                       \o <<"-", "b", "i", "r", "t", "h", "d", "a", "y">>
W_birthdays == <<"b", "i", "r", "t", "h", "d", "a", "y", "s">>
W_help == <<"h", "e", "l", "p">>
W_close == <<"c", "l", "o", "s", "e">>
W_exit == <<"e", "x", "i", "t">>

\* what the interface is asked to show
Shown(via, ret) == [via |-> via, err |-> ret.err, msg |-> ret.msg,
                    text |-> ret.text]

\* the interface method process_command calls for the command
Via(command) ==
    IF command = W_all THEN "show_contacts"
    ELSE IF command = W_help THEN "show_help"
    ELSE "show_message"

\* what process_command hands to the interface, and the book it leaves
Dispatch(command, args, data, reads) ==
    IF command = W_hello
    THEN [book |-> data, ret |-> Said("How can I help you?")]
    ELSE IF command = W_add THEN add_contact(Split(args), data)
    ELSE IF command = W_change THEN change_contact(Split(args), data)
    ELSE IF command = W_phone THEN show_phone(Split(args), data)
    ELSE IF command = W_all
    THEN [book |-> data,
          ret |-> Text("contacts",
                       Join([i \in 1..Len(data) |-> RecordStr(data[i])],
                            <<"\n">>))]
    ELSE IF command = W_add_birthday THEN add_birthday_cmd(Split(args), data)
    ELSE IF command = W_show_birthday THEN show_birthday(Split(args), data)
    ELSE IF command = W_birthdays THEN birthdays(Split(args), data, reads)
    ELSE IF command = W_help THEN [book |-> data, ret |-> Said("help")]
    ELSE IF command \in {W_close, W_exit}
    THEN [book |-> data, ret |-> Said("Good bye!")]
    ELSE [book |-> data,
          ret |-> Said("Invalid command. Use 'help' to see available commands.")]

\* process_command around the handler's outcome h
Processed(command, h) ==
    [book |-> h.book,
     shown |-> Shown(Via(command), h.ret),
     saved |-> command \in {W_close, W_exit},
     ret |-> command \notin {W_close, W_exit}]

\* process_command: the book it leaves, what it shows, whether it saved,
\* and its return value
process_command(command, args, data, reads) ==
    Processed(command, Dispatch(command, args, data, reads))

\* lines 260-261: the command and the argument text of one input line, or
\* the ValueError of unpacking a split that has fewer than two parts
ParseLine(line) ==
    LET user_input == Lower(line) IN
    IF HasSpace(user_input)
    THEN LET parts == SplitMax1(user_input) IN
         IF Len(parts) = 2 THEN Ret(<<parts[1], parts[2]>>)
         ELSE Raise("ValueError", "not enough values to unpack (expected 2)")
    ELSE Ret(<<user_input, <<>>>>)

----------------------------------------------------------------------------
(* Inputs of the explored runs *)

NameA == <<"a">>
NameB == <<"b">>
Names == {NameA, NameB}

P1 == Rep("1", 10)
P2 == Rep("2", 10)
PSup == Rep("SUP2", 10)             \* ten times U+00B2
PShort == Rep("1", 5)
PLong == Rep("1", 11)
PAlpha == Rep("1", 8) \o <<"a", "b">>

\* the text DD.MM.YYYY of three numbers
DMY(d, m, y) ==
    <<DigitChar(d \div 10), DigitChar(d % 10), ".",
      DigitChar(m \div 10), DigitChar(m % 10), ".",
      DigitChar(y \div 1000), DigitChar((y \div 100) % 10),
      DigitChar((y \div 10) % 10), DigitChar(y % 10)>>

\* "1.1.2024"
BShort == <<"1", ".", "1", ".", "2", "0", "2", "4">>

Words(tokens) == Join(tokens, <<" ">>)

\* the readings of the clock: Sat 30.12.2023 to Mon 01.01.2024, Wed
\* 21.02.2024, Thu 22.02.2024, Thu 29.02.2024, Fri 01.03.2024, and
\* Sat 22.02.2025, each at midnight and later in the day
ClockDates ==
    {[y |-> 2023, m |-> 12, d |-> 30], [y |-> 2023, m |-> 12, d |-> 31],
     [y |-> 2024, m |-> 1, d |-> 1], [y |-> 2024, m |-> 2, d |-> 21],
     [y |-> 2024, m |-> 2, d |-> 22], [y |-> 2024, m |-> 2, d |-> 29],
     [y |-> 2024, m |-> 3, d |-> 1], [y |-> 2025, m |-> 2, d |-> 22]}

Clock == {[y |-> c.y, m |-> c.m, d |-> c.d, tod |-> t] :
              c \in ClockDates, t \in {0, 1}}

\* the readings of the clock during a session of main
MainClock == {t \in Clock : t.m = 2 /\ t.d = 22 /\ t.tod = 1}
                 \cup {t \in Clock : t.m = 2 /\ t.d = 29}

\* the lines typed at the prompt
Lines ==
    { W_hello,
      W_hello \o <<" ">>,
      <<>>,
      Words(<<<<"A", "d", "d">>, <<"A">>, P1>>),
      Words(<<W_add, NameB, PShort>>),
      Words(<<W_add, NameA>>),
      Words(<<W_change, NameA, P1, P2>>),
      Words(<<W_change, NameA, P1, PAlpha>>),
      Words(<<W_change, NameA, PLong, P1>>),
      Words(<<W_change, NameA, P1>>),
      Words(<<W_phone, NameA>>),
      W_phone,
      W_all,
      Words(<<W_add_birthday, NameA, DMY(29, 2, 2024)>>),
      Words(<<W_add_birthday, NameA, DMY(31, 4, 2024)>>),
      Words(<<W_add_birthday, NameA>>),
      Words(<<W_show_birthday, NameA>>),
      W_birthdays,
      W_help,
      W_close,
      Words(<<W_exit, <<"x">>>>) }

----------------------------------------------------------------------------
(* The program: main *)

NoShown == Shown("", Said(""))

\* every record keeps to the bound on phones
WithinBounds(data) == \A i \in 1..Len(data) : Len(data[i].phones) <= MaxPhones

Init ==
    /\ book = <<>>
    /\ disk = NoFile
    /\ pc = "stopped"
    /\ io = <<>>
    /\ last = [op |-> "init", line |-> <<>>, escaped |-> FALSE,
               shown |-> NoShown]

\* lines 255-257: load the snapshot, greet, enter the loop
Startup ==
    /\ pc = "stopped"
    /\ book' = load_data(disk)
    /\ io' = <<"load">>
    /\ pc' = "running"
    /\ last' = [op |-> "start", line |-> <<>>, escaped |-> FALSE,
                shown |-> Shown("show_message",
                                Said("Welcome to the assistant bot!"))]
    /\ UNCHANGED disk

\* the readings of the clock a call can make in a book of n records
MainReads == [n \in 0..Cardinality(Names) |-> ClockReads(MainClock, n)]

\* what lines 260-261 make of each line of Lines
Parsed == [line \in Lines |-> ParseLine(line)]

\* line 261 raised: the exception leaves main
Escape(line) ==
    /\ pc' = "stopped"
    /\ last' = [op |-> "line", line |-> line, escaped |-> TRUE,
                shown |-> NoShown]
    /\ UNCHANGED <<book, disk, io>>

\* lines 262-263 with r what process_command did
Turn(line, r) ==
    /\ WithinBounds(r.book)
    /\ book' = r.book
    /\ disk' = IF r.saved THEN save_data(r.book) ELSE disk
    /\ io' = IF r.saved THEN Append(io, "save") ELSE io
    /\ pc' = IF r.ret THEN "running" ELSE "stopped"
    /\ last' = [op |-> "line", line |-> line, escaped |-> FALSE,
                shown |-> r.shown]

\* lines 259-263: one turn of the loop on the input line
MainLoop(line) ==
    /\ pc = "running"
    /\ IF Parsed[line].raised # "" THEN Escape(line)
       ELSE \E reads \in (IF Parsed[line].val[1] = W_birthdays
                          THEN MainReads[Len(book)]
                          ELSE {<<>>}) :
              Turn(line, process_command(Parsed[line].val[1],
                                         Parsed[line].val[2], book, reads))

\* input() raises EOFError or KeyboardInterrupt: the process ends unsaved
Interrupt ==
    /\ pc = "running"
    /\ pc' = "stopped"
    /\ last' = [op |-> "interrupt", line |-> <<>>, escaped |-> TRUE,
                shown |-> NoShown]
    /\ UNCHANGED <<book, disk, io>>

Next ==
    \/ Startup
    \/ \E line \in Lines : MainLoop(line)
    \/ Interrupt

Spec == Init /\ [][Next]_vars

----------------------------------------------------------------------------
(* The classes used as a library: calls of the methods of Record and       *)
(* AddressBook and of the handlers add_contact and change_contact          *)

\* the phone numbers passed to the calls
PhoneInputs == {P1, P2, PSup, PShort, PLong, PAlpha, <<>>}

StoredPhones == {P1, P2, PSup}

\* Records built by Record(name), add_phone and add_birthday before they
\* are handed to add_record
FreshRecords ==
    { Record(NameA),
      add_birthday(add_phone(Record(NameA), P2).rec, DMY(15, 6, 1990)).rec,
      Record(NameB),
      add_phone(Record(NameB), P1).rec }

\* the argument lists passed to add_contact
AddArgs == {<<NameA, P1>>, <<NameB, P1>>, <<NameA, PShort>>, <<NameA>>}

\* the argument lists passed to change_contact
ChangeArgs == {<<NameA, P1, P2>>, <<NameB, P1, P2>>, <<NameA, P1, PAlpha>>,
               <<NameA, P1>>}

InitApi ==
    /\ book = <<>>
    /\ disk = NoFile
    /\ pc = "stopped"
    /\ io = <<>>
    /\ last = Called("init", <<>>, "", "", FALSE)

\* book.add_record(record)
CallAddRecord(record) ==
    /\ book' = add_record(book, record)
    /\ last' = Called("add_record", <<record>>, "", "",
                      \E i \in 1..Len(book) : book[i].name = record.name)
    /\ UNCHANGED <<disk, pc, io>>

\* a method of the Record that book.find(NameA) returns
OnRecord(op, args, result) ==
    /\ WithinBounds(<<result.rec>>)
    /\ book' = Store(book, NameA, result.rec)
    /\ last' = Called(op, args, result.res.raised, result.res.msg, TRUE)
    /\ UNCHANGED <<disk, pc, io>>

CallAddPhone(phone) ==
    /\ find(book, NameA) # None
    /\ OnRecord("add_phone", <<phone>>,
                add_phone(find(book, NameA)[1], phone))

CallRemovePhone(phone) ==
    /\ find(book, NameA) # None
    /\ OnRecord("remove_phone", <<phone>>,
                remove_phone(find(book, NameA)[1], phone))

CallEditPhone(old_phone, new_phone) ==
    /\ find(book, NameA) # None
    /\ OnRecord("edit_phone", <<old_phone, new_phone>>,
                edit_phone(find(book, NameA)[1], old_phone, new_phone))

CallAddBirthday(birthday) ==
    /\ find(book, NameA) # None
    /\ OnRecord("add_birthday", <<birthday>>,
                add_birthday(find(book, NameA)[1], birthday))

\* a handler wrapped by input_error
OnBook(op, args, h) ==
    /\ WithinBounds(h.book)
    /\ book' = h.book
    /\ last' = Called(op, args, IF h.ret.err THEN "caught" ELSE "", h.ret.msg,
                      Len(args) > 0 /\ find(book, args[1]) # None)
    /\ UNCHANGED <<disk, pc, io>>

CallAddContact(args) == OnBook("add_contact", args, add_contact(args, book))

CallChangeContact(args) ==
    OnBook("change_contact", args, change_contact(args, book))

NextApi ==
    \/ \E record \in FreshRecords : CallAddRecord(record)
    \/ \E phone \in PhoneInputs : CallAddPhone(phone)
    \/ \E phone \in StoredPhones : CallRemovePhone(phone)
    \/ \E old \in StoredPhones, new \in {P1, P2, PShort} :
           CallEditPhone(old, new)
    \/ \E birthday \in {DMY(15, 6, 1990), DMY(31, 4, 2024)} :
           CallAddBirthday(birthday)
    \/ \E args \in AddArgs : CallAddContact(args)
    \/ \E args \in ChangeArgs : CallChangeContact(args)

SpecApi == InitApi /\ [][NextApi]_vars

----------------------------------------------------------------------------
(* Birthday, get_days_to_birthday and get_upcoming_birthdays as functions  *)
(* of the stored birthdays and of the readings of the clock                *)

\* the strings passed to Birthday(value)
BirthdayInputs ==
    { DMY(29, 2, 2024), DMY(29, 2, 2023), DMY(31, 4, 2024), DMY(15, 6, 1990),
      DMY(31, 12, 1999), DMY(1, 13, 2024), DMY(0, 1, 2024), DMY(1, 1, 0),
      BShort,
      <<" ", "1", ".", "0", "1", ".", "2", "0", "2", "4">>,
      <<"0", "1", ".", "1", ".", "2", "0", "2", "4">>,
      <<"0", "1", ".", "0", "1", ".", "2", "4">>,
      <<"0", "1", ".", "0", "1", ".", "2", "0", "2", "4", " ">>,
      <<"0", "1", ".", "0", "1", ".", "2", "0", "2", "4", "5">>,
      <<"0", "0", "1", ".", "0", "1", ".", "2", "0", "2", "4">>,
      <<"2", "0", "2", "4", "-", "0", "1", "-", "0", "1">>,
      <<"0", "1", ".", "0", "1">>,
      <<"0", "1", ".", "0", "1", ".", "2", "0", "SUP2", "4">>,
      <<"a", "b">>,
      <<>> }

\* the birthdays of the first record of the explored books
BirthdaysA ==
    { DMY(30, 12, 1990), DMY(31, 12, 1990), DMY(1, 1, 1990), DMY(6, 1, 1990),
      DMY(7, 1, 1990), DMY(8, 1, 1990), DMY(28, 2, 1990), DMY(29, 2, 2000),
      DMY(1, 3, 1990), DMY(2, 3, 1990), DMY(3, 3, 1990) }

\* the birthdays of the second record
BirthdaysB == {DMY(7, 1, 1990), DMY(29, 2, 2000)}

\* Record(name) followed by add_birthday when a birthday is given
WithBirthday(name, b) ==
    IF b = None THEN Record(name) ELSE add_birthday(Record(name), b[1]).rec

DateBooks ==
    { add_record(add_record(<<>>, WithBirthday(NameA, a)),
                 WithBirthday(NameB, b)) :
        a \in {Some(v) : v \in BirthdaysA},
        b \in {None} \cup {Some(v) : v \in BirthdaysB} }

DateReads == ClockReads(Clock, Cardinality(Names))

InitDate ==
    /\ book \in DateBooks
    /\ disk = NoFile
    /\ pc = "stopped"
    /\ io = <<>>
    /\ last = Asked("init", <<>>, Ret(None))

\* Birthday(value)
CallBirthday(value) ==
    /\ last.op = "init"
    /\ last' = Asked("Birthday", <<value>>, Birthday(value))
    /\ UNCHANGED <<book, disk, pc, io>>

\* book.data[name].get_days_to_birthday() when the clock reads today
CallDaysToBirthday(i, today) ==
    /\ last.op = "init"
    /\ last' = Asked("get_days_to_birthday", <<i, today>>,
                     get_days_to_birthday(book[i], today))
    /\ UNCHANGED <<book, disk, pc, io>>

\* book.get_upcoming_birthdays(days) when the clock reads reads
CallUpcoming(days, reads) ==
    /\ last.op = "init"
    /\ last' = Asked("get_upcoming_birthdays", <<days, reads>>,
                     get_upcoming_birthdays(book, days, reads[1], reads))
    /\ UNCHANGED <<book, disk, pc, io>>

NextDate ==
    \/ \E value \in BirthdayInputs : CallBirthday(value)
    \/ \E i \in 1..Len(book), today \in Clock : CallDaysToBirthday(i, today)
    \/ \E days \in {DefaultDays, 1}, reads \in DateReads :
           CallUpcoming(days, reads)

SpecDate == InitDate /\ [][NextDate]_vars

----------------------------------------------------------------------------
(* Properties *)

DecimalDigits == {"0", "1", "2", "3", "4", "5", "6", "7", "8", "9"}

\* a string of exactly ten decimal digits
TenDecimalDigits(s) == Len(s) = 10 /\ \A i \in 1..Len(s) : s[i] \in DecimalDigits

\* the first word of an input line, case ignored
FirstWord(line) ==
    LET t == Split(Lower(line)) IN IF t = <<>> THEN <<>> ELSE t[1]

\* the month and day of a stored birthday
MonthDay(value) == strptime(value).val

\* the day month/day of bd falls on in year y
Occurrence(bd, y) == [y |-> y, m |-> bd.m, d |-> bd.d]

\* the next occurrence of bd exists: its month/day is a date of this year
\* and, when that date is before today's date, of the next year
HasNextOccurrence(bd, today) ==
    /\ ValidDate(today.y, bd.m, bd.d)
    /\ Ordinal(Occurrence(bd, today.y)) < Ordinal(today)
           => ValidDate(today.y + 1, bd.m, bd.d)

\* the next occurrence at date granularity: this year's unless it is
\* strictly before today's date, then next year's
NextOccurrence(bd, today) ==
    IF Ordinal(Occurrence(bd, today.y)) < Ordinal(today)
    THEN Occurrence(bd, today.y + 1)
    ELSE Occurrence(bd, today.y)

\* whole days from today's date to the next occurrence
DaysAway(bd, today) == Ordinal(NextOccurrence(bd, today)) - Ordinal(today)

\* the record number i is in the returned list
Reported(i) == \E k \in 1..Len(last.val) : last.val[k].name = book[i].name

\* C1: get_upcoming_birthdays(horizon_days) includes a record with a
\* birthday exactly when the calendar-date distance from today to its next
\* occurrence is at most horizon_days, at any time of day.
C1_HorizonByDate ==
    (last.op = "get_upcoming_birthdays" /\ last.raised = "")
        => LET days == last.args[1]
               reads == last.args[2]
               today == reads[1]
           IN (\A k \in 1..Len(reads) : reads[k] = today)
                 => \A i \in 1..Len(book) :
                      (/\ book[i].birthday # None
                       /\ HasNextOccurrence(MonthDay(book[i].birthday[1]), today))
                         => (Reported(i)
                               <=> DaysAway(MonthDay(book[i].birthday[1]), today)
                                       <= days)

\* C2: get_days_to_birthday returns the whole-day difference between the
\* next occurrence and today at date granularity: 0 for a birthday whose
\* month/day is today, 1 for tomorrow, at any time of day.
C2_DaysByDate ==
    (last.op = "get_days_to_birthday" /\ book[last.args[1]].birthday # None)
        => LET bd == MonthDay(book[last.args[1]].birthday[1])
               today == last.args[2]
           IN HasNextOccurrence(bd, today)
                 => /\ last.raised = ""
                    /\ last.val = Some(DaysAway(bd, today))

\* C3: every reported date is the record's next occurrence moved two days
\* on from a Saturday, one day on from a Sunday and unmoved from Monday to
\* Friday; it never falls on a Saturday or Sunday and is written DD.MM.YYYY.
C3_WeekendShift ==
    (last.op = "get_upcoming_birthdays" /\ last.raised = "")
        => \A k \in 1..Len(last.val) :
             \E i \in 1..Len(book) :
               /\ book[i].name = last.val[k].name
               /\ book[i].birthday # None
               /\ LET today == last.args[2][1]
                      occ == NextOccurrence(MonthDay(book[i].birthday[1]), today)
                      wd == (Ordinal(occ) + 6) % 7
                      due == IF wd = 5 THEN AddDays(occ, 2)
                             ELSE IF wd = 6 THEN AddDays(occ, 1)
                             ELSE occ
                      text == last.val[k].birthday
                  IN /\ text = DMY(due.d, due.m, due.y)
                     /\ Len(text) = 10
                     /\ (Ordinal(due) + 6) % 7 \in 0..4

\* a call that reported a birthday falling on Saturday 06.01.2024 as
\* Monday 08.01.2024
C3_Witness ==
    /\ last.op = "get_upcoming_birthdays"
    /\ last.raised = ""
    /\ book[1].birthday = Some(DMY(6, 1, 1990))
    /\ \E k \in 1..Len(last.val) :
         /\ last.val[k].name = book[1].name
         /\ last.val[k].birthday = DMY(8, 1, 2024)

\* C4: edit_phone(old, new) with old present and new valid replaces only
\* the first entry equal to old, at the same index, length and all other
\* positions unchanged; with old absent it fails with "Phone number not
\* found" and leaves the phones as they were.
C4_EditPhoneInPlace ==
    [][last'.op = "edit_phone"
         => LET old == last'.args[1]
                new == last'.args[2]
                i == CHOOSE n \in 1..Len(book) : book[n].name = NameA
                ph == book[i].phones
                after == book'[i].phones
            IN IF \E k \in 1..Len(ph) : ph[k] = old
               THEN TenDecimalDigits(new)
                      => /\ last'.raised = ""
                         /\ Len(after) = Len(ph)
                         /\ \A k \in 1..Len(ph) :
                              after[k] =
                                IF ph[k] = old /\ \A j \in 1..(k - 1) : ph[j] # old
                                THEN new ELSE ph[k]
               ELSE /\ last'.raised = "ValueError"
                    /\ last'.msg = "Phone number not found"
                    /\ after = ph]_vars

\* edit_phone(P1, P2) has turned the phones P1, P1 into P2, P1
C4_Witness ==
    /\ last.op = "edit_phone"
    /\ last.raised = ""
    /\ last.args = <<P1, P2>>
    /\ \E i \in 1..Len(book) : book[i].phones = <<P2, P1>>

\* C5: every command other than close/exit, whatever its arguments, shows
\* a message, lets no error escape and leaves the loop running; the loop
\* ends only on close or exit.
C5_LoopContinues ==
    (last.op = "line" /\ FirstWord(last.line) \notin {W_close, W_exit})
        => /\ ~last.escaped
           /\ last.shown.via # ""
           /\ pc = "running"

CleanExit(l) ==
    l.op = "line" /\ ~l.escaped /\ FirstWord(l.line) \in {W_close, W_exit}

\* C6: the snapshot is read once at startup and written only by close or
\* exit; no other step changes it; a startup that follows close/exit loads
\* the same names, phones and birthdays; without a snapshot file startup
\* yields an empty book without error.
C6_Persistence ==
    [][/\ disk' # disk => CleanExit(last')
       /\ CleanExit(last') => (disk' # NoFile /\ pc' = "stopped")
       /\ last'.op = "start"
            => /\ disk = NoFile => book' = <<>>
               /\ CleanExit(last) => book' = book
               /\ ~last'.escaped
               /\ pc' = "running"
       /\ io' \in {<<"load">>, <<"load", "save">>}]_vars

\* a startup that loaded two records, one with two phones and a birthday
C6_Witness ==
    /\ last.op = "start"
    /\ disk # NoFile
    /\ Len(book) = 2
    /\ \E i \in 1..Len(book) :
         Len(book[i].phones) = 2 /\ book[i].birthday # None

\* C7: add_record with a name already in the book replaces the stored
\* Record entirely, the number of entries unchanged; the add command for an
\* existing name keeps the record, its earlier phones and its birthday, and
\* appends the phone.
C7_TwoEntryPoints ==
    [][/\ last'.op = "add_record"
            => LET r == last'.args[1] IN
               (\E i \in 1..Len(book) : book[i].name = r.name)
                 => /\ Len(book') = Len(book)
                    /\ \A i \in 1..Len(book) :
                         book'[i] = IF book[i].name = r.name THEN r ELSE book[i]
       /\ (last'.op = "add_contact" /\ Len(last'.args) >= 2)
            => LET name == last'.args[1]
                   phone == last'.args[2]
               IN (\E i \in 1..Len(book) : book[i].name = name)
                    => /\ Len(book') = Len(book)
                       /\ \A i \in 1..Len(book) :
                            IF book[i].name # name THEN book'[i] = book[i]
                            ELSE /\ book'[i].name = name
                                 /\ book'[i].birthday = book[i].birthday
                                 /\ book'[i].phones =
                                      IF TenDecimalDigits(phone)
                                      THEN Append(book[i].phones, phone)
                                      ELSE book[i].phones]_vars

\* add_contact for a known name has appended to a record that had a phone
\* and a birthday
C7_Witness ==
    /\ last.op = "add_contact"
    /\ last.existed
    /\ last.msg = "Contact updated."
    /\ \E i \in 1..Len(book) :
         /\ book[i].name = last.args[1]
         /\ book[i].phones = <<P2, P1>>
         /\ book[i].birthday # None

\* C8: every stored phone is a string of exactly 10 decimal digits, and a
\* call that is given anything else fails with the validation error.
C8_PhoneInvariant ==
    /\ \A i \in 1..Len(book) :
         \A j \in 1..Len(book[i].phones) : TenDecimalDigits(book[i].phones[j])
    /\ (last.op = "add_phone" /\ ~TenDecimalDigits(last.args[1]))
           => last.raised = "ValueError"

\* the form DD.MM.YYYY of a real calendar date
StrictDate(s) ==
    /\ Len(s) = 10
    /\ s[3] = "." /\ s[6] = "."
    /\ \A i \in {1, 2, 4, 5, 7, 8, 9, 10} : s[i] \in DecimalDigits
    /\ LET d == 10 * DigitVal(s[1]) + DigitVal(s[2])
           m == 10 * DigitVal(s[4]) + DigitVal(s[5])
           y == 1000 * DigitVal(s[7]) + 100 * DigitVal(s[8])
                    + 10 * DigitVal(s[9]) + DigitVal(s[10])
       IN /\ y >= 1
          /\ m \in 1..12
          /\ d >= 1
          /\ d <= (IF m = 2
                   THEN (IF y % 4 = 0 /\ (y % 100 # 0 \/ y % 400 = 0)
                         THEN 29 ELSE 28)
                   ELSE IF m \in {4, 6, 9, 11} THEN 30 ELSE 31)

\* C9: Birthday(value) succeeds exactly when value has the form DD.MM.YYYY
\* with two-digit day and month and a four-digit year and denotes a real
\* calendar date; on success the stored value is the original string.
C9_BirthdayStrict ==
    last.op = "Birthday"
        => /\ last.raised = "" <=> StrictDate(last.args[1])
           /\ last.raised = "" => last.val = last.args[1]

\* C10: a command whose handler returns an error message leaves the
\* AddressBook unchanged.
C10_ErrorLeavesBook ==
    [][(last'.op = "line" /\ last'.shown.err) => book' = book]_vars

====
